---------------------------- MODULE Spec2Model ----------------------------
(***************************************************************************)
(* A model of lib/api.js of node-google-play: the GooglePlay client with   *)
(* its login, its memoized request function (the fingerprint cache), the   *)
(* prefetch ingestion and the expiry timers.                               *)
(*                                                                         *)
(* JavaScript values are records tagged by their type in field t, so that  *)
(* undefined, false and a string are three different values, as they are   *)
(* for util.format and for the truthiness tests of the code.  Strings are  *)
(* TLA+ strings; a text that the code splits (a login body, a prefetch     *)
(* URL) is a sequence of string tokens, the separators being tokens.       *)
(***************************************************************************)
EXTENDS Integers, Sequences, FiniteSets, TLC

VARIABLES
    instances,   \* the clients constructed by GooglePlay(...), api.js:67
    USE_CACHE,   \* per client: api.js:72, the constructor's useCache === true
    authToken,   \* per client: api.js:73, undefined until a login succeeds
    cache,       \* per client: memoizedExecuteRequestApi2.cache
    promises,    \* per client: the promises made by Transport calls and seeds
    calls,       \* per client: the HTTP requests sent to the API and for downloads
    ops,         \* per client: the public operations invoked, with their outcome
    timers,      \* per client: the setTimeout callbacks armed and not yet run
    logins,      \* per client: the login() calls and the last one's outcome
    now,         \* the clock, in milliseconds
    fpIn,        \* inputs of the fingerprint function (SpecFp)
    fpOut        \* its outputs (SpecFp)

vars == <<instances, USE_CACHE, authToken, cache, promises, calls, ops,
          timers, logins, now, fpIn, fpOut>>

engineVars == <<instances, USE_CACHE, authToken, cache, promises, calls, ops,
                timers, logins, now>>

-----------------------------------------------------------------------------
(* Bounds of the model.                                                    *)

NumClients == 2
MaxOps == 2
MaxLogins == 2
MaxTicks == 2
TicksPerTTL == 2
MaxQueryLen == 2
MaxBodyToks == 6
MaxEntries == 3

-----------------------------------------------------------------------------
(* JavaScript values.                                                      *)

Undefined == [t |-> "undefined"]
Bool(b) == [t |-> "boolean", b |-> b]
Str(s) == [t |-> "string", s |-> s]
Num(n) == [t |-> "number", n |-> n]

\* if (v): undefined, false, "" and 0 are falsy
Truthy(v) ==
    CASE v.t = "undefined" -> FALSE
      [] v.t = "boolean" -> v.b
      [] v.t = "string" -> v.s # ""
      [] v.t = "number" -> v.n # 0
      [] OTHER -> TRUE

\* util.format's %s, and v.toString() for the values that have one
FmtS(v) ==
    CASE v.t = "undefined" -> "undefined"
      [] v.t = "boolean" -> (IF v.b THEN "true" ELSE "false")
      [] v.t = "string" -> v.s
      [] v.t = "number" -> ToString(v.n)

-----------------------------------------------------------------------------
(* cachedGetResolver: the fingerprint of a request.  A query object is the *)
(* sequence of its <<key, value>> pairs in insertion order, keys distinct. *)

\* the query keys of the model in the order of Array.prototype.sort, which
\* json-stable-stringify applies to Object.keys
KeyOrder == <<"c", "doc", "rt">>

KeyRank(k) == CHOOSE i \in 1..Len(KeyOrder) : KeyOrder[i] = k

RECURSIVE InsertByKey(_, _)
InsertByKey(pair, sorted) ==
    IF sorted = <<>> THEN <<pair>>
    ELSE IF KeyRank(pair[1]) < KeyRank(Head(sorted)[1])
         THEN <<pair>> \o sorted
         ELSE <<Head(sorted)>> \o InsertByKey(pair, Tail(sorted))

RECURSIVE SortByKey(_)
SortByKey(q) ==
    IF q = <<>> THEN <<>> ELSE InsertByKey(Head(q), SortByKey(Tail(q)))

RECURSIVE JoinMembers(_)
JoinMembers(q) ==
    IF q = <<>> THEN ""
    ELSE "\"" \o q[1][1] \o "\":\"" \o q[1][2] \o "\""
         \o (IF Len(q) > 1 THEN "," ELSE "") \o JoinMembers(Tail(q))

\* json-stable-stringify of an object whose values are strings
stringify(q) == "{" \o JoinMembers(SortByKey(q)) \o "}"

\* api.js:176-179: every value of the query replaced by its toString()
QueryToStrings(q) == [i \in 1..Len(q) |-> <<q[i][1], FmtS(q[i][2])>>]

\* api.js:173-182
cachedGetResolver(path, query, datapost) ==
    path \o "|" \o stringify(QueryToStrings(query)) \o "|post=" \o FmtS(datapost)

-----------------------------------------------------------------------------
(* Texts that the code splits are sequences of tokens; a separator ("\n",  *)
(* "=", "?", "&") is a token of its own and no other token contains one.   *)

RECURSIVE Concat(_)
Concat(toks) == IF toks = <<>> THEN "" ELSE Head(toks) \o Concat(Tail(toks))

\* String.prototype.split(sep): the segments between the separators; a text
\* without separator is one segment, the empty text too
RECURSIVE Split(_, _)
Split(toks, sep) ==
    IF \A i \in 1..Len(toks) : toks[i] # sep THEN <<toks>>
    ELSE LET i == CHOOSE k \in 1..Len(toks) :
                      toks[k] = sep /\ \A j \in 1..(k - 1) : toks[j] # sep
         IN <<SubSeq(toks, 1, i - 1)>> \o Split(SubSeq(toks, i + 1, Len(toks)), sep)

\* String.prototype.toLowerCase on the tokens of the model
Lower(tok) ==
    CASE tok = "Auth" -> "auth"
      [] tok = "SID" -> "sid"
      [] OTHER -> tok

LowerAll(toks) == Concat([i \in 1..Len(toks) |-> Lower(toks[i])])

\* obj[key] = val on an object held as its sequence of <<key, value>> pairs
SetProp(obj, key, val) ==
    IF \E i \in 1..Len(obj) : obj[i][1] = key
    THEN [i \in 1..Len(obj) |-> IF obj[i][1] = key THEN <<key, val>> ELSE obj[i]]
    ELSE Append(obj, <<key, val>>)

HasProp(obj, key) == \E i \in 1..Len(obj) : obj[i][1] = key

GetProp(obj, key) == obj[CHOOSE i \in 1..Len(obj) : obj[i][1] = key][2]

\* api.js:45-52, the reduce over the lines from line number i on; the
\* result is [ok, obj], ok FALSE when the assert on a line fails
RECURSIVE ReduceLines(_, _, _)
ReduceLines(lines, i, obj) ==
    IF i > Len(lines) THEN [ok |-> TRUE, obj |-> obj]
    ELSE LET pair == Split(lines[i], "=")
         IN IF Len(pair) # 2 THEN [ok |-> FALSE, obj |-> obj]
            ELSE ReduceLines(lines, i + 1,
                             SetProp(obj, LowerAll(pair[1]), Concat(pair[2])))

\* api.js:44-53
responseToObj(lines) == ReduceLines(Split(lines, "\n"), 1, <<>>)

-----------------------------------------------------------------------------
(* login, api.js:125-162.  A reply of the auth endpoint is                 *)
(* [status, ctype, body]; the outcome of a login is [ok, name, message].   *)

TEXT_PLAIN == "text/plain; charset=utf-8"

Success == [ok |-> TRUE, name |-> "", message |-> <<>>]
Failure(name, message) == [ok |-> FALSE, name |-> name, message |-> message]

\* a mutant: the token is taken from the body before the status is looked at
loginSpreadTokenFirst(reply, token) ==
    LET response == responseToObj(reply.body) IN
    IF response.ok /\ HasProp(response.obj, "auth")
    THEN [outcome |-> IF reply.status # 200
                      THEN Failure("LoginError", reply.body) ELSE Success,
          token |-> Str(GetProp(response.obj, "auth"))]
    ELSE [outcome |-> Failure("Error", <<"expected auth in server response">>),
          token |-> token]

\* api.js:148-161, the callback of the auth POST: the outcome and the value
\* of authToken after it
loginSpread(reply, token) ==
    IF reply.status # 200
    THEN [outcome |-> Failure("LoginError", reply.body), token |-> token]
    ELSE IF reply.ctype # TEXT_PLAIN
    THEN [outcome |-> Failure("AssertionError", <<"utf8 string body">>),
          token |-> token]
    ELSE LET response == responseToObj(reply.body) IN
         IF ~response.ok
         THEN [outcome |-> Failure("AssertionError",
                                   <<"expected list of pairs from server">>),
               token |-> token]
         ELSE IF ~HasProp(response.obj, "auth")
                 \/ GetProp(response.obj, "auth") = ""
         THEN [outcome |-> Failure("Error", <<"expected auth in server response">>),
               token |-> token]
         ELSE [outcome |-> Success,
               token |-> Str(GetProp(response.obj, "auth"))]

-----------------------------------------------------------------------------
(* Responses of the API.  A decoded ResponseWrapper is                     *)
(* [payload, data, preFetch]: payload names the section the payload holds  *)
(* (detailsResponse, listResponse, buyResponse) or "none"; data is the     *)
(* appDeliveryData of a buyResponse; preFetch is the sequence of PreFetch  *)
(* entries [url, response].  A Buffer holds the wire form of a message,    *)
(* or bytes that are no message.                                           *)

CACHE_INVALIDATION_INTERVAL == 30000

NoData == [downloadUrl |-> "", downloadAuthCookie |-> <<>>]

Message(payload, preFetch) ==
    [payload |-> payload, data |-> NoData, preFetch |-> preFetch]

\* the answer of the purchase endpoint for package P
GrantMessage ==
    [payload |-> "buyResponse",
     data |-> [downloadUrl |-> "https://dl/P",
               downloadAuthCookie |-> <<[name |-> "MarketDA", value |-> "123"]>>],
     preFetch |-> <<>>]

Buffer(wire) == [t |-> "Buffer", wire |-> wire]
Object(msg) == [t |-> "object", msg |-> msg]
Error(name, message) == [t |-> "error", name |-> name, message |-> message]
Garbage == [payload |-> "garbage", data |-> NoData, preFetch |-> <<>>]

\* api.js:282-284, ResponseWrapper.parse: [ok, msg], or the error it throws.
\* The protobuf library accepts a Buffer only
_toResponseWrapper(data) ==
    IF data.t # "Buffer"
    THEN [ok |-> FALSE, err |-> Error("TypeError", "Argument should be a buffer"),
          msg |-> Garbage]
    ELSE IF data.wire = Garbage
    THEN [ok |-> FALSE, err |-> Error("DecodeError", "malformed message"),
          msg |-> Garbage]
    ELSE [ok |-> TRUE, err |-> Error("", ""), msg |-> data.wire]

\* querystring.parse of the text after the "?": the object of its key=value
\* segments; a key given twice holds the array of its values, of which the
\* code only takes toString(), the values joined by ","
RECURSIVE ParseSegments(_, _, _)
ParseSegments(segs, i, obj) ==
    IF i > Len(segs) THEN obj
    ELSE LET kv == Split(segs[i], "=")
             k == Concat(kv[1])
             v == IF Len(kv) = 1 THEN ""
                  ELSE Concat(SubSeq(segs[i], Len(kv[1]) + 2, Len(segs[i])))
         IN ParseSegments(segs, i + 1,
                SetProp(obj, k, IF HasProp(obj, k)
                                THEN Str(GetProp(obj, k).s \o "," \o v)
                                ELSE Str(v)))

qsParse(toks) == IF toks = <<>> THEN <<>> ELSE ParseSegments(Split(toks, "&"), 1, <<>>)

\* a mutant: the separator is optional, as with /(.*)\??(.*)/, and a URL
\* without it matches as a path with an empty query
UrlMatchOptional(url) ==
    IF \A i \in 1..Len(url) : url[i] # "?"
    THEN [match |-> TRUE, path |-> Concat(url), query |-> <<>>]
    ELSE LET i == CHOOSE k \in 1..Len(url) :
                      url[k] = "?" /\ \A j \in (k + 1)..Len(url) : url[j] # "?"
         IN [match |-> TRUE, path |-> Concat(SubSeq(url, 1, i - 1)),
             query |-> qsParse(SubSeq(url, i + 1, Len(url)))]

\* api.js:255, /(.*)\?(.*)/.exec(url): the first group is greedy, so the
\* URL is cut at its last "?"; no "?" is no match
UrlMatch(url) ==
    IF \A i \in 1..Len(url) : url[i] # "?"
    THEN [match |-> FALSE, path |-> "", query |-> <<>>]
    ELSE LET i == CHOOSE k \in 1..Len(url) :
                      url[k] = "?" /\ \A j \in (k + 1)..Len(url) : url[j] # "?"
         IN [match |-> TRUE, path |-> Concat(SubSeq(url, 1, i - 1)),
             query |-> qsParse(SubSeq(url, i + 1, Len(url)))]

-----------------------------------------------------------------------------
(* The memoized request function.  The cache of a client is the set of its *)
(* entries [key, p, due]: p is the promise the key maps to and due the    *)
(* time at which the timer armed with the insertion removes the key, or   *)
(* NoTimer when the insertion armed none.                                  *)
(* A promise is [st, val], st one of pending, resolved, rejected.          *)

Clients == 1..NumClients

NoTimer == -1

Pending == [st |-> "pending", val |-> Undefined]
Resolved(v) == [st |-> "resolved", val |-> v]
Rejected(e) == [st |-> "rejected", val |-> e]

CacheKeys(c) == { e.key : e \in c }
CacheGet(c, key) == CHOOSE e \in c : e.key = key
\* cache[key] = p
CachePut(c, key, p, due) ==
    { e \in c : e.key # key } \cup {[key |-> key, p |-> p, due |-> due]}
\* delete cache[key]
CacheDelete(c, key) == { e \in c : e.key # key }

\* a mutant: the request is sent without the check of the token
_executeRequestApi2NoAssert(self, path, query, datapost) ==
    [threw |-> FALSE,
     p |-> Len(promises[self]) + 1,
     promises |-> Append(promises[self], Pending),
     calls |-> Append(calls[self],
                 [method |-> IF Truthy(datapost) THEN "POST" ELSE "GET",
                  path |-> path, api |-> TRUE, jar |-> {},
                  p |-> Len(promises[self]) + 1])]

\* api.js:189-240, the part that runs in the caller's turn: the assert on
\* the token throws; else one request is sent, POST when datapost is truthy
\* (api.js:225), and the promise of its body returned
_executeRequestApi2(self, path, query, datapost) ==
    IF authToken[self] = Undefined
    THEN [threw |-> TRUE, p |-> 0, promises |-> promises[self],
          calls |-> calls[self]]
    ELSE [threw |-> FALSE,
          p |-> Len(promises[self]) + 1,
          promises |-> Append(promises[self], Pending),
          calls |-> Append(calls[self],
                      [method |-> IF Truthy(datapost) THEN "POST" ELSE "GET",
                       path |-> path, api |-> TRUE, jar |-> {},
                  p |-> Len(promises[self]) + 1])]

\* a mutant: one cache for the module, that of the first client, looked
\* up by every client
memoizedShared(self, path, query, datapost) ==
    LET key == cachedGetResolver(path, query, datapost)
        r == _executeRequestApi2(self, path, query, datapost)
        q == CacheGet(cache[1], key).p
    IN IF USE_CACHE[self] /\ key \in CacheKeys(cache[1])
       THEN [threw |-> FALSE, hit |-> TRUE,
             p |-> IF self = 1 THEN q ELSE Len(promises[self]) + 1,
             promises |-> IF self = 1 THEN promises[self]
                          ELSE Append(promises[self], promises[1][q]),
             calls |-> calls[self],
             cache |-> cache[self]]
       ELSE [threw |-> r.threw, hit |-> FALSE, p |-> r.p,
             promises |-> r.promises, calls |-> r.calls,
             cache |-> IF USE_CACHE[self] /\ ~r.threw
                       THEN CachePut(cache[self], key, r.p, NoTimer)
                       ELSE cache[self]]

\* a mutant: a rejected promise found in the cache is not returned; the
\* request is sent again
memoizedRetryFailed(self, path, query, datapost) ==
    LET key == cachedGetResolver(path, query, datapost)
        r == _executeRequestApi2(self, path, query, datapost)
    IN IF /\ USE_CACHE[self]
          /\ key \in CacheKeys(cache[self])
          /\ promises[self][CacheGet(cache[self], key).p].st # "rejected"
       THEN [threw |-> FALSE, hit |-> TRUE, p |-> CacheGet(cache[self], key).p,
             promises |-> promises[self], calls |-> calls[self],
             cache |-> cache[self]]
       ELSE [threw |-> r.threw, hit |-> FALSE, p |-> r.p,
             promises |-> r.promises, calls |-> r.calls,
             cache |-> IF USE_CACHE[self] /\ ~r.threw
                       THEN CachePut(cache[self], key, r.p, NoTimer)
                       ELSE cache[self]]

\* a mutant: the function is memoized whatever the constructor was told
memoizedAlways(self, path, query, datapost) ==
    LET key == cachedGetResolver(path, query, datapost)
        r == _executeRequestApi2(self, path, query, datapost)
    IN IF key \in CacheKeys(cache[self])
       THEN [threw |-> FALSE, hit |-> TRUE, p |-> CacheGet(cache[self], key).p,
             promises |-> promises[self], calls |-> calls[self],
             cache |-> cache[self]]
       ELSE [threw |-> r.threw, hit |-> FALSE, p |-> r.p,
             promises |-> r.promises, calls |-> r.calls,
             cache |-> IF ~r.threw
                       THEN CachePut(cache[self], key, r.p, NoTimer)
                       ELSE cache[self]]

\* api.js:242-243 with lodash's _.memoize(func, resolver): the cache is
\* looked up under the resolver's key; on a miss func runs and what it
\* returns is stored under the key, nothing when it throws
memoizedExecuteRequestApi2(self, path, query, datapost) ==
    LET key == cachedGetResolver(path, query, datapost)
        r == _executeRequestApi2(self, path, query, datapost)
    IN IF USE_CACHE[self] /\ key \in CacheKeys(cache[self])
       THEN [threw |-> FALSE, hit |-> TRUE, p |-> CacheGet(cache[self], key).p,
             promises |-> promises[self], calls |-> calls[self],
             cache |-> cache[self]]
       ELSE [threw |-> r.threw, hit |-> FALSE, p |-> r.p,
             promises |-> r.promises, calls |-> r.calls,
             cache |-> IF USE_CACHE[self] /\ ~r.threw
                       THEN CachePut(cache[self], key, r.p, NoTimer)
                       ELSE cache[self]]

\* the operations of a client still waiting for a promise that is pending
InFlight(self) ==
    { i \in 1..Len(ops[self]) :
        /\ ops[self][i].st = "waiting"
        /\ promises[self][ops[self][i].p].st = "pending" }

NoResult == [ok |-> FALSE, name |-> "", msg |-> Garbage]
\* the result of an operation whose promise is fulfilled, or rejected
OkResult(name, msg) == [ok |-> TRUE, name |-> name, msg |-> msg]
ErrResult(name) == [ok |-> FALSE, name |-> name, msg |-> Garbage]

\* api.js:295-296, and the first line of each public operation: the call
\* of the memoized function in the caller's turn.  An exception leaves the
\* operation as thrown; else it waits for the promise
Invoke(self, kind, path, query, datapost) ==
    /\ self \in instances
    /\ Len(ops[self]) < MaxOps
    /\ LET r == memoizedExecuteRequestApi2(self, path, query, datapost)
       IN /\ promises' = [promises EXCEPT ![self] = r.promises]
          /\ calls' = [calls EXCEPT ![self] = r.calls]
          /\ cache' = [cache EXCEPT ![self] = r.cache]
          /\ ops' = [ops EXCEPT ![self] = Append(@,
                       [kind |-> kind, path |-> path, query |-> query,
                        datapost |-> datapost,
                        auth |-> authToken[self] # Undefined,
                        conc |-> InFlight(self),
                        hit |-> r.hit, p |-> r.p,
                        call |-> IF r.threw \/ r.hit THEN 0 ELSE Len(r.calls),
                        st |-> IF r.threw THEN "threw" ELSE "waiting",
                        res |-> NoResult])]
    /\ UNCHANGED <<instances, USE_CACHE, authToken, timers, logins, now,
                   fpIn, fpOut>>

-----------------------------------------------------------------------------
(* The public operations, api.js:308-371.                                  *)

Pkgs == {"P"}
Versions == {1}

\* api.js:308-309
getPackageDetails(self) ==
    \E pkg \in Pkgs :
        Invoke(self, "details", "details", <<<<"doc", Str(pkg)>>>>, Undefined)

\* api.js:314-315
getRelatedApps(self) ==
    \E pkg \in Pkgs :
        Invoke(self, "related", "rec",
               <<<<"doc", Str(pkg)>>, <<"rt", Str("1")>>, <<"c", Str("3")>>>>,
               Undefined)

\* api.js:328, fmt("ot=1&doc=%s&vc=%d", pkg, versionCode)
PurchaseBody(pkg, vc) == Str("ot=1&doc=" \o pkg \o "&vc=" \o ToString(vc))

\* api.js:327-329
getDownloadInfo(self) ==
    \E pkg \in Pkgs, vc \in Versions :
        Invoke(self, "getDownloadInfo", "purchase", <<>>, PurchaseBody(pkg, vc))

\* api.js:361-365
downloadApk(self) ==
    \E pkg \in Pkgs, vc \in Versions :
        Invoke(self, "download", "purchase", <<>>, PurchaseBody(pkg, vc))

\* the requests a caller makes with the exported executeRequestApi: the
\* request of related() with its query in another order, without a body
\* argument and with false for it
GenericRequests ==
    [path : {"rec"},
     query : {<<<<"c", Str("3")>>, <<"rt", Num(1)>>, <<"doc", Str("P")>>>>},
     datapost : {Undefined, Bool(FALSE)}]

\* api.js:401, executeRequestApi as exported
executeRequestApi(self) ==
    \E req \in GenericRequests :
        Invoke(self, "executeRequestApi", req.path, req.query, req.datapost)

\* api.js:381-383: _.keys of the cache; without the cache in use the
\* memoized function is the plain function, its cache property undefined,
\* and _.keys of undefined is the empty list
cachedKeys(self) == IF USE_CACHE[self] THEN CacheKeys(cache[self]) ELSE {}

\* api.js:385-397: the cache of _.memoize is a plain object and has no
\* method each (without the cache in use there is no cache object at all):
\* the call at line 390 throws a TypeError before anything is deleted
invalidateCache(self) ==
    /\ self \in instances
    /\ Len(ops[self]) < MaxOps
    /\ ops' = [ops EXCEPT ![self] = Append(@,
                 [kind |-> "invalidateCache", path |-> "", query |-> <<>>,
                  datapost |-> Undefined,
                  auth |-> authToken[self] # Undefined,
                  conc |-> InFlight(self),
                  hit |-> FALSE, p |-> 0, call |-> 0,
                  st |-> "threw", res |-> ErrResult("TypeError")])]
    /\ UNCHANGED <<instances, USE_CACHE, authToken, cache, promises, calls,
                   timers, logins, now, fpIn, fpOut>>

-----------------------------------------------------------------------------
(* The answers of the API endpoint.                                        *)

GZIP == "application/x-gzip"

PayloadOf(path) ==
    CASE path = "details" -> "detailsResponse"
      [] path = "rec" -> "listResponse"
      [] path = "purchase" -> "buyResponse"
      [] OTHER -> "none"

\* the PreFetch entry of Scenario D, for rec?doc=P&rt=1&c=3
RecEntry ==
    [url |-> <<"rec", "?", "doc", "=", "P", "&", "rt", "=", "1", "&", "c", "=", "3">>,
     response |-> Object(Message("listResponse", <<>>))]

ApiMessages(path) ==
    IF path = "purchase" THEN {GrantMessage, Message("none", <<>>)}
    ELSE {Message(PayloadOf(path), <<>>), Message(PayloadOf(path), <<RecEntry>>),
          Message("none", <<>>)}

ApiReplies(path) ==
    [status : {200}, ctype : {GZIP}, wire : ApiMessages(path) \cup {Garbage}]
    \cup [status : {403}, ctype : {"text/html"}, wire : {Garbage}]
    \cup [status : {200}, ctype : {"text/html"}, wire : {Garbage}]

\* api.js:231-239, the callback of the request: the promise of the call is
\* rejected on a status other than 200 or another content type, else
\* resolved with the body, a Buffer
TransportSpread(reply) ==
    IF reply.status # 200
    THEN Rejected(Error("RequestError", "body"))
    ELSE IF reply.ctype # GZIP
    THEN Rejected(Error("AssertionError", "not application/x-gzip response"))
    ELSE Resolved(Buffer(reply.wire))

\* the API endpoint answers a request in flight
TransportRespond(self) ==
    /\ self \in instances
    /\ \E c \in 1..Len(calls[self]) :
         /\ calls[self][c].api
         /\ promises[self][calls[self][c].p].st = "pending"
         /\ \E reply \in ApiReplies(calls[self][c].path) :
              promises' = [promises EXCEPT ![self][calls[self][c].p] =
                                               TransportSpread(reply)]
    /\ UNCHANGED <<instances, USE_CACHE, authToken, cache, calls, ops, timers,
                   logins, now, fpIn, fpOut>>

-----------------------------------------------------------------------------
(* Prefetch ingestion and the continuation of a request.                   *)

\* api.js:262, memoizedExecuteRequestApi2[cacheKey]: the property of the
\* memoized function itself named by the key, not of its cache.  A key
\* holds a "|", and no property of a function does: it is undefined
MemoizedProperty(self, key) == Undefined

\* api.js:254-275, the entries from number i on, applied to the state
\* st = [cache, promises, timers, threw] of the client.  An entry whose URL
\* does not match is passed over; one that matches and has no response
\* fails the assert of line 261, which ends the forEach with an exception
RECURSIVE HandleEntries(_, _, _, _, _)
HandleEntries(self, entries, i, ttl, st) ==
    IF i > Len(entries) THEN st
    ELSE LET m == UrlMatch(entries[i].url)
             key == cachedGetResolver(m.path, m.query, Bool(FALSE))
         IN IF ~m.match
            THEN HandleEntries(self, entries, i + 1, ttl, st)
            ELSE IF entries[i].response = Undefined
            THEN [st EXCEPT !.threw = TRUE]
            ELSE IF Truthy(MemoizedProperty(self, key))
            THEN HandleEntries(self, entries, i + 1, ttl, st)
            ELSE HandleEntries(self, entries, i + 1, ttl,
                   [cache |-> CachePut(st.cache, key, Len(st.promises) + 1,
                                       IF ttl # 0 THEN now + ttl ELSE NoTimer),
                    promises |-> Append(st.promises,
                                        Resolved(entries[i].response)),
                    timers |-> IF ttl # 0
                               THEN st.timers \cup {[key |-> key, due |-> now + ttl]}
                               ELSE st.timers,
                    threw |-> FALSE])

\* api.js:250-277
_tryHandlePrefetch(self, response, ttl) ==
    HandleEntries(self, response.preFetch, 1, ttl,
                  [cache |-> cache[self], promises |-> promises[self],
                   timers |-> timers[self], threw |-> FALSE])

\* api.js:346-355 as called at api.js:368 with one argument: the cookies
\* come as url, and cookies is undefined; the reduce over undefined
\* returns the jar it started with
_prepCookies(url, cookies) ==
    IF cookies = Undefined THEN {}
    ELSE { [name |-> cookies[i].name, value |-> cookies[i].value,
            url |-> url] : i \in 1..Len(cookies) }

\* the second callback of each public operation, on the message that
\* executeRequestApi hands on: api.js:309-311, 315-319, 329-338
Project(kind, msg) ==
    CASE kind = "details" ->
           IF msg.payload = "detailsResponse" THEN OkResult("docV2", msg)
           ELSE ErrResult("TypeError")
      [] kind = "related" ->
           IF msg.payload = "listResponse" THEN OkResult("doc", msg)
           ELSE ErrResult("AssertionError")
      [] kind \in {"getDownloadInfo", "download"} ->
           IF msg.payload = "buyResponse" THEN OkResult("grant", msg)
           ELSE ErrResult("AssertionError")
      [] OTHER -> OkResult("message", msg)

\* api.js:297-304 and the operation's own callback: the promise the
\* operation waits for has settled.  A rejection is handed on; a body is
\* parsed, its preFetch entries cached (with the cache in use), and the
\* payload handed to the operation's callback; download() then sends its
\* GET (api.js:366-370)
OpThen(self) ==
    /\ self \in instances
    /\ \E i \in 1..Len(ops[self]) :
         LET o == ops[self][i]
             pr == promises[self][o.p]
             parsed == _toResponseWrapper(pr.val)
             st == IF pr.st = "resolved" /\ parsed.ok /\ USE_CACHE[self]
                   THEN _tryHandlePrefetch(self, parsed.msg,
                                          CACHE_INVALIDATION_INTERVAL)
                   ELSE [cache |-> cache[self], promises |-> promises[self],
                         timers |-> timers[self], threw |-> FALSE]
             res == IF pr.st = "rejected" THEN ErrResult(pr.val.name)
                    ELSE IF ~parsed.ok THEN ErrResult(parsed.err.name)
                    ELSE IF st.threw THEN ErrResult("AssertionError")
                    ELSE Project(o.kind, parsed.msg)
             get == o.kind = "download" /\ res.ok
         IN /\ o.st = "waiting"
            /\ pr.st # "pending"
            /\ cache' = [cache EXCEPT ![self] = st.cache]
            /\ timers' = [timers EXCEPT ![self] = st.timers]
            /\ promises' = [promises EXCEPT ![self] =
                              IF get THEN Append(st.promises, Pending)
                              ELSE st.promises]
            /\ calls' = [calls EXCEPT ![self] =
                           IF get
                           THEN Append(@, [method |-> "GET",
                                           path |-> res.msg.data.downloadUrl,
                                           api |-> FALSE,
                                           jar |-> _prepCookies(
                                               res.msg.data.downloadAuthCookie,
                                               Undefined),
                                           p |-> Len(st.promises) + 1])
                           ELSE @]
            /\ ops' = [ops EXCEPT ![self][i] =
                         IF get
                         THEN [@ EXCEPT !.st = "downloading",
                                        !.p = Len(st.promises) + 1]
                         ELSE [@ EXCEPT !.st = IF res.ok THEN "ok" ELSE "failed",
                                        !.res = res]]
    /\ UNCHANGED <<instances, USE_CACHE, authToken, logins, now, fpIn, fpOut>>

\* api.js:369: the download server answers the GET of download(); the
\* promise of download() resolves with the response
DownloadRespond(self) ==
    /\ self \in instances
    /\ \E i \in 1..Len(ops[self]) :
         /\ ops[self][i].st = "downloading"
         /\ promises' = [promises EXCEPT ![self][ops[self][i].p] =
                           Resolved(Object(Message("apk", <<>>)))]
         /\ ops' = [ops EXCEPT ![self][i] =
                      [@ EXCEPT !.st = "ok",
                                !.res = OkResult("apk", Message("apk", <<>>))]]
    /\ UNCHANGED <<instances, USE_CACHE, authToken, cache, calls, timers,
                   logins, now, fpIn, fpOut>>

-----------------------------------------------------------------------------
(* Timers and the clock.                                                   *)

TickMs == CACHE_INVALIDATION_INTERVAL \div TicksPerTTL

\* the callbacks of a settled promise run before any timer and before time
\* passes: no operation waits for a promise that has settled
CallbacksDone ==
    \A c \in instances : \A i \in 1..Len(ops[c]) :
        ops[c][i].st = "waiting" => promises[c][ops[c][i].p].st = "pending"

\* api.js:268-273, the callback of setTimeout: delete cache[cacheKey]
TimerFire(self) ==
    /\ self \in instances
    /\ CallbacksDone
    /\ \E t \in timers[self] :
         /\ t.due <= now
         /\ cache' = [cache EXCEPT ![self] = CacheDelete(@, t.key)]
         /\ timers' = [timers EXCEPT ![self] = @ \ {t}]
    /\ UNCHANGED <<instances, USE_CACHE, authToken, promises, calls, ops,
                   logins, now, fpIn, fpOut>>

\* time passes; a timer runs when it is due, so the clock does not pass a
\* timer that has not run
Tick ==
    /\ now + TickMs <= MaxTicks * TickMs
    /\ CallbacksDone
    /\ \A c \in instances : \A t \in timers[c] : t.due >= now + TickMs
    /\ now' = now + TickMs
    /\ UNCHANGED <<instances, USE_CACHE, authToken, cache, promises, calls,
                   ops, timers, logins, fpIn, fpOut>>

-----------------------------------------------------------------------------
(* login() and the answer of the auth endpoint.                            *)

\* api.js:125-147: login() sends one POST to the auth endpoint.  The check
\* of lines 126-130 never fails: the constructor has required the username
\* and the password (api.js:79-80)
login(self) ==
    /\ self \in instances
    /\ logins[self].made < MaxLogins
    /\ logins' = [logins EXCEPT ![self] =
                    [@ EXCEPT !.made = @ + 1, !.pending = @ + 1, !.posts = @ + 1]]
    /\ UNCHANGED <<instances, USE_CACHE, authToken, cache, promises, calls,
                   ops, timers, now, fpIn, fpOut>>

\* api.js:148-161: the auth endpoint answers one of the POSTs in flight
LoginRespond(self, reply) ==
    /\ self \in instances
    /\ logins[self].pending > 0
    /\ LET r == loginSpread(reply, authToken[self]) IN
       /\ authToken' = [authToken EXCEPT ![self] = r.token]
       /\ logins' = [logins EXCEPT ![self] =
                       [@ EXCEPT !.pending = @ - 1,
                                 !.last = [st |-> "done", reply |-> reply,
                                           before |-> authToken[self],
                                           outcome |-> r.outcome]]]
    /\ UNCHANGED <<instances, USE_CACHE, cache, promises, calls, ops, timers,
                   now, fpIn, fpOut>>

NoLogin == [st |-> "none",
            reply |-> [status |-> 0, ctype |-> "", body |-> <<>>],
            before |-> Undefined, outcome |-> Success]

\* the replies of the auth endpoint in Spec
AuthReplies ==
    [status : {200, 403}, ctype : {TEXT_PLAIN},
     body : {<<"Auth", "=", "xyz">>}]

LoginAnswered(self) ==
    /\ self \in instances
    /\ logins[self].pending > 0
    /\ \E reply \in AuthReplies : LoginRespond(self, reply)

-----------------------------------------------------------------------------
(* Spec: one client, constructed with or without the cache.                *)

ClientInit ==
    /\ USE_CACHE \in [Clients -> BOOLEAN]
    /\ \A c \in Clients \ instances : ~USE_CACHE[c]
    /\ authToken = [c \in Clients |-> Undefined]
    /\ cache = [c \in Clients |-> {}]
    /\ promises = [c \in Clients |-> <<>>]
    /\ calls = [c \in Clients |-> <<>>]
    /\ ops = [c \in Clients |-> <<>>]
    /\ timers = [c \in Clients |-> {}]
    /\ logins = [c \in Clients |->
                   [made |-> 0, pending |-> 0, posts |-> 0, last |-> NoLogin]]
    /\ now = 0

Init ==
    /\ instances = {1}
    /\ ClientInit
    /\ fpIn = <<>>
    /\ fpOut = <<>>

Next ==
    \/ Tick
    \/ \E self \in Clients :
         \/ login(self)
         \/ LoginAnswered(self)
         \/ getPackageDetails(self)
         \/ getRelatedApps(self)
         \/ getDownloadInfo(self)
         \/ downloadApk(self)
         \/ executeRequestApi(self)
         \/ invalidateCache(self)
         \/ TransportRespond(self)
         \/ OpThen(self)
         \/ DownloadRespond(self)
         \/ TimerFire(self)

Spec == Init /\ [][Next]_vars

-----------------------------------------------------------------------------
(* SpecLogin: the logins of one client against an auth endpoint whose      *)
(* first answer is any body of at most MaxBodyToks tokens.                 *)

BodyToks == {"Auth", "SID", "=", "xyz", "\n"}

LoginBodies == UNION { [1..n -> BodyToks] : n \in 0..MaxBodyToks }

LoginReplies ==
    [status : {200}, ctype : {TEXT_PLAIN}, body : LoginBodies]
    \cup [status : {200, 403}, ctype : {TEXT_PLAIN, "text/html"},
          body : {<<"Auth", "=", "xyz">>, <<"SID", "=", "xyz">>,
                  <<"Error", "=", "BadAuthentication">>}]

\* the replies to the logins after the first one answered
LaterLoginReplies ==
    [status : {200, 403}, ctype : {TEXT_PLAIN},
     body : {<<"Auth", "=", "SID">>, <<"SID", "=", "xyz">>}]

LoginAnsweredAny(self) ==
    /\ self \in instances
    /\ logins[self].pending > 0
    /\ \E reply \in (IF logins[self].last.st = "none" THEN LoginReplies
                     ELSE LaterLoginReplies) : LoginRespond(self, reply)

LoginNext == \E self \in Clients : login(self) \/ LoginAnsweredAny(self)

SpecLogin == Init /\ [][LoginNext]_vars

-----------------------------------------------------------------------------
(* SpecFp: the fingerprint function applied to pairs of requests.          *)

FpPaths == {"rec", "details"}
FpKeys == {"c", "doc", "rt"}
FpValues == {Str("1"), Num(1), Str("P")}
FpBodies == {Undefined, Bool(FALSE), Str("ot=1&doc=P&vc=1"),
             Str("ot=1&doc=P&vc=2")}

DistinctKeys(q) == \A i, j \in 1..Len(q) : i # j => q[i][1] # q[j][1]

FpQueries ==
    UNION { { q \in [1..n -> FpKeys \X FpValues] : DistinctKeys(q) }
            : n \in 0..MaxQueryLen }

FpRequests == [path : FpPaths, query : FpQueries, datapost : FpBodies]

FpInit ==
    /\ instances = {1}
    /\ ClientInit
    /\ USE_CACHE[1]
    /\ fpIn \in FpRequests \X FpRequests
    /\ fpOut = <<>>

\* the URL path?k1=v1&k2=v2 that a PreFetch entry carries for a request,
\* as its tokens
RECURSIVE UrlSegments(_)
UrlSegments(q) ==
    IF q = <<>> THEN <<>>
    ELSE <<q[1][1], "=", FmtS(q[1][2])>>
         \o (IF Len(q) > 1 THEN <<"&">> ELSE <<>>) \o UrlSegments(Tail(q))

UrlOf(path, query) == <<path, "?">> \o UrlSegments(query)

\* api.js:255-259: the fingerprint under which a PreFetch entry is seeded
SeedKey(url) ==
    LET m == UrlMatch(url) IN cachedGetResolver(m.path, m.query, Bool(FALSE))

\* the fingerprint of each request of the pair, and the fingerprint under
\* which a PreFetch entry for the URL of each would be seeded
FpCompute ==
    /\ fpOut = <<>>
    /\ fpOut' = << cachedGetResolver(fpIn[1].path, fpIn[1].query, fpIn[1].datapost),
                   cachedGetResolver(fpIn[2].path, fpIn[2].query, fpIn[2].datapost),
                   SeedKey(UrlOf(fpIn[1].path, fpIn[1].query)),
                   SeedKey(UrlOf(fpIn[2].path, fpIn[2].query)) >>
    /\ UNCHANGED <<engineVars, fpIn>>

FpNext == FpCompute

SpecFp == FpInit /\ [][FpNext]_vars

-----------------------------------------------------------------------------
(* SpecPrefetch: details() against an API whose answers embed any sequence *)
(* of at most MaxEntries PreFetch entries, well-formed or not.             *)

\* a PreFetch entry for details?doc=P
DetailsEntry ==
    [url |-> <<"details", "?", "doc", "=", "P">>,
     response |-> Object(Message("detailsResponse", <<>>))]

\* an entry whose URL has no "?"
BadEntry ==
    [url |-> <<"rec", "&", "doc", "=", "P">>,
     response |-> Object(Message("listResponse", <<>>))]

\* an entry without the optional field response
NoResponseEntry == [url |-> RecEntry.url, response |-> Undefined]

PrefetchEntries == {RecEntry, DetailsEntry, BadEntry, NoResponseEntry}

PrefetchSeqs == UNION { [1..n -> PrefetchEntries] : n \in 0..MaxEntries }

PrefetchReplies ==
    [status : {200}, ctype : {GZIP},
     wire : { Message("detailsResponse", seq) : seq \in PrefetchSeqs }]
    \cup [status : {403}, ctype : {"text/html"}, wire : {Garbage}]

\* the API endpoint answers a request in flight, api.js:231-239
TransportRespondAny(self) ==
    /\ self \in instances
    /\ \E c \in 1..Len(calls[self]) :
         /\ calls[self][c].api
         /\ promises[self][calls[self][c].p].st = "pending"
         /\ \E reply \in PrefetchReplies :
              promises' = [promises EXCEPT ![self][calls[self][c].p] =
                                               TransportSpread(reply)]
    /\ UNCHANGED <<instances, USE_CACHE, authToken, cache, calls, ops, timers,
                   logins, now, fpIn, fpOut>>

PrefetchNext ==
    \/ Tick
    \/ \E self \in Clients :
         \/ login(self)
         \/ LoginAnswered(self)
         \/ getPackageDetails(self)
         \/ TransportRespondAny(self)
         \/ OpThen(self)
         \/ TimerFire(self)

SpecPrefetch == Init /\ [][PrefetchNext]_vars

-----------------------------------------------------------------------------
(* SpecTwo: two clients constructed in one process, each logging in and    *)
(* calling details(); MaxOps bounds the operations of the two together.    *)

TwoInit ==
    /\ instances = {1, 2}
    /\ ClientInit
    /\ fpIn = <<>>
    /\ fpOut = <<>>

TotalOps == Len(ops[1]) + Len(ops[2])

TwoNext ==
    \/ Tick
    \/ \E self \in Clients :
         \/ login(self)
         \/ LoginAnswered(self)
         \/ (TotalOps < MaxOps /\ getPackageDetails(self))
         \/ TransportRespond(self)
         \/ OpThen(self)
         \/ TimerFire(self)

SpecTwo == TwoInit /\ [][TwoNext]_vars

-----------------------------------------------------------------------------
(* The claims.                                                             *)

\* the keys and values of a query as they go on the wire
QuerySet(q) == { <<q[i][1], FmtS(q[i][2])>> : i \in 1..Len(q) }

\* two operations with the same path and the same query keys and values,
\* both without a body: api.js:225 sends a GET for every falsy datapost
SameGet(a, b) ==
    /\ a.path = b.path
    /\ QuerySet(a.query) = QuerySet(b.query)
    /\ ~Truthy(a.datapost)
    /\ ~Truthy(b.datapost)

CallsOf(c, p) == { k \in 1..Len(calls[c]) : calls[c][k].p = p }

\* what C1 promises of operation j, issued while operation i was in flight
Deduplicated(c, i, j) ==
    /\ ops[c][j].call = 0
    /\ ops[c][j].p = ops[c][i].p
    /\ Cardinality(CallsOf(c, ops[c][i].p)) = 1
    /\ (/\ ops[c][i].kind = ops[c][j].kind
        /\ ops[c][i].st \in {"ok", "failed"}
        /\ ops[c][j].st \in {"ok", "failed"})
       => ops[c][i].res = ops[c][j].res

\* C1: with the cache in use and the client logged in, an operation issued
\* while an identical GET-shaped operation (same path, same query keys and
\* values, no body) is still in flight sends no request of its own: both
\* wait for the promise of the one Transport call, and two operations of
\* the same kind end with the same result.
C1_Dedup ==
    \A c \in instances : \A j \in 1..Len(ops[c]) : \A i \in ops[c][j].conc :
        (USE_CACHE[c] /\ ops[c][i].auth /\ ops[c][j].auth
           /\ SameGet(ops[c][i], ops[c][j]))
        => Deduplicated(c, i, j)

\* the part of C1 the code keeps: operations called without a body
\* argument, as details() and related() call, are deduplicated
DedupOmittedBody ==
    \A c \in instances : \A j \in 1..Len(ops[c]) : \A i \in ops[c][j].conc :
        (USE_CACHE[c] /\ ops[c][i].auth /\ ops[c][j].auth
           /\ SameGet(ops[c][i], ops[c][j])
           /\ ops[c][i].datapost = Undefined
           /\ ops[c][j].datapost = Undefined)
        => Deduplicated(c, i, j)

\* the same with one argument list: both operations pass the same falsy
\* datapost
DedupSameArguments ==
    \A c \in instances : \A j \in 1..Len(ops[c]) : \A i \in ops[c][j].conc :
        (USE_CACHE[c] /\ ops[c][i].auth /\ ops[c][j].auth
           /\ SameGet(ops[c][i], ops[c][j])
           /\ ops[c][i].datapost = ops[c][j].datapost)
        => Deduplicated(c, i, j)

\* C2: a POST never creates a cache entry, and every POST operation of a
\* logged-in client sends its own request, also when an identical POST was
\* made before.
C2_PostBypass ==
    \A c \in instances : \A i \in 1..Len(ops[c]) :
        (Truthy(ops[c][i].datapost) /\ ops[c][i].auth)
        => /\ ops[c][i].call # 0
           /\ cachedGetResolver(ops[c][i].path, ops[c][i].query,
                                ops[c][i].datapost) \notin CacheKeys(cache[c])

\* the fingerprint under which the PreFetch entry of Scenario D is seeded
RecSeedKey ==
    LET m == UrlMatch(RecEntry.url)
    IN cachedGetResolver(m.path, m.query, Bool(FALSE))

\* a response embedding the entry for rec?doc=P&rt=1&c=3 has been handled
\* and its TTL has not elapsed: the timer armed with the seed is not yet due
PrefetchLive(c) == \E t \in timers[c] : t.key = RecSeedKey /\ t.due > now

\* the step invokes related(P) on client c
RelatedInvoked(c) ==
    /\ Len(ops'[c]) = Len(ops[c]) + 1
    /\ ops'[c][Len(ops'[c])].kind = "related"

\* C3: Scenario D.  With the cache in use, after a response embedding a
\* PreFetch entry for rec?doc=P&rt=1&c=3 has been handled, related(P) called
\* before the TTL of the entry elapses sends no request: it is served from
\* the seeded entry.
C3_PrefetchHit ==
    [][\A c \in instances :
          (USE_CACHE[c] /\ PrefetchLive(c) /\ RelatedInvoked(c))
          => /\ calls'[c] = calls[c]
             /\ ops'[c][Len(ops'[c])].hit
             /\ ops'[c][Len(ops'[c])].p = CacheGet(cache[c], RecSeedKey).p]_vars

\* the step hands the answer of a request on to its operation, and with it
\* ingests the PreFetch entries of the answer
IngestStep(c) ==
    \E i \in 1..Len(ops[c]) :
        ops[c][i].st = "waiting" /\ ops'[c][i].st # "waiting"

\* C4: prefetch ingestion never overwrites: every fingerprint that has a
\* cache entry before the entries of a response are seeded maps to the
\* same promise after it.
C4_SeedNoOverwrite ==
    [][\A c \in instances :
          IngestStep(c)
          => \A e \in cache[c] :
                \E f \in cache'[c] : f.key = e.key /\ f.p = e.p]_vars

\* C5: an entry inserted with a TTL stays in the cache until its own TTL
\* has elapsed, whatever timers of earlier insertions run, and is gone
\* once it has elapsed.
C5_TtlExpiry ==
    /\ [][\A c \in instances : \A e \in cache[c] :
             (e.due # NoTimer /\ now' < e.due)
             => e.key \in CacheKeys(cache'[c])]_vars
    /\ [](\A c \in instances : \A e \in cache[c] :
             e.due # NoTimer => now <= e.due)

\* C6: every cache entry, made by a miss or by a seed, has an expiry timer
\* armed at its insertion and still to run: none stays for ever.
C6_EveryEntryExpires ==
    \A c \in instances : \A e \in cache[c] :
        /\ e.due # NoTimer
        /\ \E t \in timers[c] : t.key = e.key /\ t.due = e.due

\* two requests with the same path, the same query keys and values and the
\* same body-presence flag
SameRequest(a, b) ==
    /\ a.path = b.path
    /\ QuerySet(a.query) = QuerySet(b.query)
    /\ Truthy(a.datapost) = Truthy(b.datapost)

\* C7: the fingerprints of two requests are equal exactly when the requests
\* have the same path, the same query keys and values in any order, and
\* the same body-presence flag: the order of the query and the content of
\* the body do not count, and a POST never has the fingerprint of a GET.
C7_FingerprintDeterminism ==
    fpOut # <<>> => (SameRequest(fpIn[1], fpIn[2]) <=> fpOut[1] = fpOut[2])

\* C8: an operation invoked on a client that is not logged in fails at
\* once: it throws in the caller's turn, waits for no promise and sends no
\* request; as long as the client is not logged in no request has been
\* sent and the cache is empty, with the cache in use or not.
C8_Unauthenticated ==
    \A c \in instances :
        /\ \A i \in 1..Len(ops[c]) :
              ~ops[c][i].auth
              => /\ ops[c][i].st = "threw"
                 /\ ops[c][i].call = 0
                 /\ ops[c][i].p = 0
        /\ authToken[c] = Undefined => (calls[c] = <<>> /\ cache[c] = {})

\* download() and details() were invoked before any login, cache in use
C8_Witness ==
    /\ USE_CACHE[1]
    /\ authToken[1] = Undefined
    /\ Len(ops[1]) = 2
    /\ ops[1][1].kind = "download" /\ ~ops[1][1].auth
    /\ ops[1][2].kind = "details" /\ ~ops[1][2].auth

\* the lines of a body, and the key and the value of a line: what stands
\* before and after its first "="
BodyLines(body) == Split(body, "\n")
HasEq(line) == \E i \in 1..Len(line) : line[i] = "="
KeyOf(line) == LowerAll(Split(line, "=")[1])
ValueOf(line) == Concat(SubSeq(line, Len(Split(line, "=")[1]) + 2, Len(line)))
AuthLines(body) ==
    { i \in 1..Len(BodyLines(body)) :
        HasEq(BodyLines(body)[i]) /\ KeyOf(BodyLines(body)[i]) = "auth" }

\* C9: a login answered with a status other than 200 fails with LoginError
\* carrying the body of the answer, and a login answered with 200 and a
\* body without auth key fails; in both cases the token is what it was
\* before the answer; login() sends one POST and never another.
C9_LoginFailure ==
    \A c \in instances :
        LET l == logins[c].last IN
        /\ logins[c].posts = logins[c].made
        /\ (l.st = "done" /\ l.reply.status # 200)
           => /\ l.outcome = Failure("LoginError", l.reply.body)
              /\ authToken[c] = l.before
        /\ (l.st = "done" /\ l.reply.status = 200 /\ AuthLines(l.reply.body) = {})
           => /\ ~l.outcome.ok
              /\ authToken[c] = l.before

\* a login answered 403 after an earlier login had set the token
C9_Witness ==
    /\ logins[1].last.st = "done"
    /\ logins[1].last.reply.status = 403
    /\ logins[1].last.before # Undefined
    /\ logins[1].made = 2 /\ logins[1].pending = 0

\* a body of KEY=value lines, one of them with the key auth in some letter
\* case and a token for value
AuthBody(body) ==
    /\ \A i \in 1..Len(BodyLines(body)) :
          HasEq(BodyLines(body)[i]) /\ KeyOf(BodyLines(body)[i]) # ""
    /\ Cardinality(AuthLines(body)) = 1
    /\ \A i \in AuthLines(body) : ValueOf(BodyLines(body)[i]) # ""

\* C10: a login answered 200, text/plain; charset=utf-8, with a body of
\* KEY=value lines that holds an auth key succeeds, and the token is the
\* value of that key.
C10_LoginSuccess ==
    \A c \in instances :
        LET l == logins[c].last IN
        (l.st = "done" /\ l.reply.status = 200 /\ l.reply.ctype = TEXT_PLAIN
           /\ AuthBody(l.reply.body))
        => /\ l.outcome.ok
           /\ authToken[c] =
                Str(ValueOf(BodyLines(l.reply.body)[
                        CHOOSE i \in AuthLines(l.reply.body) : TRUE]))

\* C11: once a login has set the token, no step changes it: no further
\* login, answered with success or with failure, and no other operation.
C11_TokenImmutable ==
    [][\A c \in instances :
          authToken[c] # Undefined => authToken'[c] = authToken[c]]_vars

\* the step invokes invalidateCache() on client c
InvalidateInvoked(c) ==
    /\ Len(ops'[c]) = Len(ops[c]) + 1
    /\ ops'[c][Len(ops'[c])].kind = "invalidateCache"

\* the step invokes a GET-shaped operation on the logged-in client c,
\* right after an invalidateCache()
GetAfterInvalidate(c) ==
    /\ Len(ops[c]) > 0
    /\ ops[c][Len(ops[c])].kind = "invalidateCache"
    /\ Len(ops'[c]) = Len(ops[c]) + 1
    /\ ops'[c][Len(ops'[c])].kind # "invalidateCache"
    /\ ops'[c][Len(ops'[c])].auth
    /\ ~Truthy(ops'[c][Len(ops'[c])].datapost)

\* C12: invalidateCache() returns and leaves the cache without any entry,
\* whatever it held (cachedKeys() is empty), and the GET-shaped operation
\* invoked next sends a request.
C12_InvalidateAll ==
    [][\A c \in instances :
          /\ InvalidateInvoked(c)
             => /\ ops'[c][Len(ops'[c])].st # "threw"
                /\ cache'[c] = {}
                /\ (IF USE_CACHE[c] THEN CacheKeys(cache'[c]) ELSE {}) = {}
          /\ GetAfterInvalidate(c)
             => Len(calls'[c]) = Len(calls[c]) + 1]_vars

\* the operations that send requests to the API
RequestOps(c) == { i \in 1..Len(ops[c]) : ops[c][i].kind # "invalidateCache" }

ApiCalls(c) == { k \in 1..Len(calls[c]) : calls[c][k].api }

\* C13: no request operation throws in the caller's turn: whatever fails
\* (no token, a status other than 200, another content type, a body that
\* does not decode, a payload without the expected section), the caller
\* holds a promise that is rejected; and no operation sends a second
\* request to the API.
C13_ErrorsAsFailedFutures ==
    \A c \in instances :
        /\ \A i \in RequestOps(c) :
              /\ ops[c][i].st # "threw"
              /\ ops[c][i].st = "failed" => ~ops[c][i].res.ok
        /\ Cardinality(ApiCalls(c)) <= Cardinality(RequestOps(c))

\* the kind of value a fulfilled cache entry holds: "Buffer" for the raw
\* bytes of a response, "object" for a decoded response
EntryKinds(c) ==
    { promises[c][e.p].val.t : e \in { f \in cache[c] :
                                         promises[c][f.p].st = "resolved" } }

\* what an operation takes from its promise to hand to the decoder
\* (api.js:298) is no response that is decoded already
DecoderGetsBytes ==
    \A c \in instances : \A i \in RequestOps(c) :
        (ops[c][i].st = "waiting" /\ promises[c][ops[c][i].p].st = "resolved")
        => promises[c][ops[c][i].p].val.t # "object"

\* C14: the fulfilled entries of a cache all hold the same kind of value,
\* whether a miss or a seed made them, and a value served from the cache
\* is never a decoded response passed to the decoder again.
C14_CacheValueKind ==
    /\ \A c \in instances : Cardinality(EntryKinds(c)) <= 1
    /\ DecoderGetsBytes

\* the cookies of a grant as the jar holds them for the grant's URL
GrantCookies(data) ==
    { [name |-> data.downloadAuthCookie[i].name,
       value |-> data.downloadAuthCookie[i].value,
       url |-> data.downloadUrl] : i \in 1..Len(data.downloadAuthCookie) }

\* C15: the GET that download() sends goes to the URL of the grant with a
\* cookie jar that holds every cookie of the grant for that URL.
C15_DownloadCookies ==
    \A c \in instances : \A k \in 1..Len(calls[c]) :
        ~calls[c][k].api
        => /\ calls[c][k].method = "GET"
           /\ calls[c][k].path = GrantMessage.data.downloadUrl
           /\ GrantCookies(GrantMessage.data) \subseteq calls[c][k].jar

\* C16: the fingerprint under which a PreFetch entry for path?query is
\* seeded is the fingerprint of the request for that path and query made
\* without a body argument.
C16_SeedKeyIsRequestKey ==
    fpOut # <<>>
    => \A i \in 1..2 : fpIn[i].datapost = Undefined => fpOut[i + 2] = fpOut[i]

\* what the seed and the request do agree on: the path and the query part
\* of the key; the seed's key is that of the request made with false
SeedKeyIsKeyWithFalse ==
    fpOut # <<>>
    => \A i \in 1..2 :
          fpOut[i + 2] = cachedGetResolver(fpIn[i].path, fpIn[i].query, Bool(FALSE))

\* a PreFetch URL with a query separator
WellFormedUrl(url) == \E i \in 1..Len(url) : url[i] = "?"

\* the entries of a sequence that have a query separator, by position
WellFormed(entries) ==
    { k \in 1..Len(entries) : WellFormedUrl(entries[k].url) }

\* the last well-formed entry of the sequence seeded under the key
LastFor(entries, key) ==
    CHOOSE k \in WellFormed(entries) :
        /\ SeedKey(entries[k].url) = key
        /\ \A j \in WellFormed(entries) :
              SeedKey(entries[j].url) = key => j <= k

\* the step hands to operation i of client c, the cache in use, a decoded
\* response of which an entry has no query separator, the others being
\* complete
SkipsMalformed(c, i) ==
    /\ USE_CACHE[c]
    /\ ops[c][i].st = "waiting"
    /\ ops'[c][i].st # "waiting"
    /\ promises[c][ops[c][i].p].st = "resolved"
    /\ promises[c][ops[c][i].p].val.t = "Buffer"
    /\ promises[c][ops[c][i].p].val.wire # Garbage
    /\ LET entries == promises[c][ops[c][i].p].val.wire.preFetch
       IN /\ WellFormed(entries) # 1..Len(entries)
          /\ \A k \in WellFormed(entries) : entries[k].response # Undefined

\* C17: an entry whose URL has no query separator is passed over: the
\* operation ends with its response as without the entry, the cache gets
\* no key for it, and every well-formed entry of the response, before or
\* after it, is seeded: its key maps to a promise fulfilled with the
\* response of the (last) entry for that key.
C17_MalformedSkipped ==
    [][\A c \in instances : \A i \in 1..Len(ops[c]) :
          SkipsMalformed(c, i)
          => LET msg == promises[c][ops[c][i].p].val.wire
                 entries == msg.preFetch
             IN /\ ops'[c][i].st = "ok"
                /\ ops'[c][i].res = OkResult("docV2", msg)
                /\ CacheKeys(cache'[c])
                     = CacheKeys(cache[c])
                         \cup { SeedKey(entries[k].url) : k \in WellFormed(entries) }
                /\ \A k \in WellFormed(entries) :
                      LET key == SeedKey(entries[k].url)
                      IN promises'[c][CacheGet(cache'[c], key).p]
                           = Resolved(entries[LastFor(entries, key)].response)]_vars

\* a response with a malformed entry between two well-formed ones has been
\* handled: the operation has its result and both are in the cache
C17_Witness ==
    /\ USE_CACHE[1]
    /\ Len(ops[1]) >= 1
    /\ ops[1][1].st = "ok"
    /\ ops[1][1].res.msg.preFetch = <<RecEntry, BadEntry, DetailsEntry>>
    /\ {SeedKey(RecEntry.url), SeedKey(DetailsEntry.url)} \subseteq CacheKeys(cache[1])

\* C18: on a client constructed without the cache, the cache has no entry
\* and cachedKeys() is empty at all times, no PreFetch entry is ingested
\* (no promise exists but those of the requests sent), no timer is armed,
\* and every operation of the logged-in client sends a request of its own.
C18_CacheDisabled ==
    \A c \in instances :
        ~USE_CACHE[c]
        => /\ cache[c] = {}
           /\ cachedKeys(c) = {}
           /\ timers[c] = {}
           /\ \A p \in 1..Len(promises[c]) : CallsOf(c, p) # {}
           /\ \A i \in RequestOps(c) :
                 ops[c][i].auth
                 => /\ ~ops[c][i].hit
                    /\ ops[c][i].call \in ApiCalls(c)
                    /\ \A j \in RequestOps(c) :
                          j # i => ops[c][j].call # ops[c][i].call

\* without the cache, details(P) was called twice and each call sent its
\* request; the first was answered with a PreFetch entry and has ended
C18_Witness ==
    /\ ~USE_CACHE[1]
    /\ Len(ops[1]) = 2
    /\ ops[1][1].kind = "details" /\ ops[1][2].kind = "details"
    /\ ops[1][1].auth /\ ops[1][2].auth
    /\ ops[1][1].st = "ok"
    /\ ops[1][1].res.msg.preFetch = <<RecEntry>>
    /\ ops[1][2].st = "ok"

\* two operations called with the same arguments: the same path, the same
\* query keys and values and the same body argument
SameArguments(a, b) ==
    /\ a.path = b.path
    /\ QuerySet(a.query) = QuerySet(b.query)
    /\ a.datapost = b.datapost

\* operation i of client c sent a request that failed, and the promise of
\* that request is still an entry of the cache
FailureCached(c, i) ==
    /\ i \in RequestOps(c)
    /\ ops[c][i].call # 0
    /\ promises[c][calls[c][ops[c][i].call].p].st = "rejected"
    /\ \E e \in cache[c] : e.p = calls[c][ops[c][i].call].p

\* the step invokes a request operation on client c
RequestInvoked(c) ==
    /\ Len(ops'[c]) = Len(ops[c]) + 1
    /\ ops'[c][Len(ops'[c])].kind # "invalidateCache"

\* C19: with the cache in use, a request that fails (a status other than
\* 200, or another content type) stays in the cache as a rejected promise:
\* its rejection removes no entry, an operation called later with the same
\* arguments while the entry is there sends no request and gets that
\* promise, and it ends with the same failure.
C19_FailureCached ==
    /\ [][\A c \in instances :
             /\ \A e \in cache[c] :
                   (promises[c][e.p].st = "pending"
                      /\ promises'[c][e.p].st = "rejected")
                   => e \in cache'[c]
             /\ \A i \in 1..Len(ops[c]) :
                   (USE_CACHE[c] /\ RequestInvoked(c) /\ FailureCached(c, i)
                      /\ SameArguments(ops[c][i], ops'[c][Len(ops'[c])]))
                   => /\ calls'[c] = calls[c]
                      /\ ops'[c][Len(ops'[c])].hit
                      /\ ops'[c][Len(ops'[c])].p = calls[c][ops[c][i].call].p]_vars
    /\ [](\A c \in instances : \A j \in RequestOps(c) :
             (ops[c][j].hit /\ promises[c][ops[c][j].p].st = "rejected"
                /\ ops[c][j].st # "waiting")
             => /\ ops[c][j].st = "failed"
                /\ ops[c][j].res = ErrResult(promises[c][ops[c][j].p].val.name))

\* related(P) failed with a RequestError, and related(P) called after the
\* failure has failed with it too, without a request of its own
C19_Witness ==
    /\ USE_CACHE[1]
    /\ Len(ops[1]) = 2
    /\ ops[1][1].kind = "related" /\ ops[1][2].kind = "related"
    /\ ops[1][2].conc = {}
    /\ ops[1][1].st = "failed" /\ ops[1][1].res = ErrResult("RequestError")
    /\ ops[1][2].hit /\ ops[1][2].call = 0
    /\ ops[1][2].st = "failed" /\ ops[1][2].res = ErrResult("RequestError")
    /\ Len(calls[1]) = 1

\* the step is a request, the answer to one, a seed, an expiry or a login
\* of client a
ActsOn(a) ==
    \/ ops'[a] # ops[a]
    \/ calls'[a] # calls[a]
    \/ promises'[a] # promises[a]
    \/ timers'[a] # timers[a]
    \/ logins'[a] # logins[a]

\* C20: the cache and the token belong to the client: a step of one
\* client leaves the cache and the token of the other as they are, and the
\* first call of an operation on a logged-in client sends a request,
\* whatever the other client has in its cache.
C20_PerInstance ==
    /\ [][\A a, b \in instances :
             (a # b /\ ActsOn(a))
             => /\ cache'[b] = cache[b]
                /\ authToken'[b] = authToken[b]]_vars
    /\ [](\A c \in instances : \A i \in RequestOps(c) :
             (ops[c][i].auth
                /\ \A j \in 1..(i - 1) : ~SameArguments(ops[c][j], ops[c][i]))
             => /\ ~ops[c][i].hit
                /\ ops[c][i].call \in ApiCalls(c))

\* both clients use the cache and have called details(P); each sent one
\* request; the answer to the first seeded an entry the second does not have
C20_Witness ==
    /\ USE_CACHE[1] /\ USE_CACHE[2]
    /\ Len(ops[1]) = 1 /\ Len(ops[2]) = 1
    /\ ops[1][1].st = "ok" /\ ops[2][1].st = "ok"
    /\ Len(calls[1]) = 1 /\ Len(calls[2]) = 1
    /\ RecSeedKey \in CacheKeys(cache[1])
    /\ RecSeedKey \notin CacheKeys(cache[2])

=============================================================================
